---- MODULE Spec2Model ----
(***************************************************************************)
(* A model of the JSON scanner (src/src/tokenize.rs), the recursive-descent *)
(* parser (src/src/parse.rs) and the entry point (src/src/lib.rs).          *)
(*                                                                         *)
(* A Rust `char` is a Unicode scalar value: characters are code points,     *)
(* text is a sequence of code points.  Rust indexes from 0 and TLA+ from 1: *)
(* `index` keeps the Rust value and At(v, i) reads v[i].                    *)
(* A Rust panic (index out of bounds, todo!()) aborts the call: it is the   *)
(* outcome Panic, distinct from every Ok(..) and Err(..).                   *)
(***************************************************************************)
EXTENDS Integers, Sequences, FiniteSets, TLC

VARIABLES
    pc,         \* position of the running call
    chars,      \* tokenize: the input's characters
    index,      \* tokenize: the scan index
    tokens,     \* tokenize: the tokens pushed so far; parse_tokens: its input
    scan,       \* history: the last make_token call (start, stop, outcome, text)
    tok_result, \* what tokenize returned
    cursor,     \* parse_tokens: the shared `index` into tokens
    stack,      \* parse_array / parse_object activations, innermost last
    ret,        \* the value a parse_tokens call has just returned
    called,     \* history: where the call that has just returned started
    lexemes,    \* history: the lexemes the input text was written as, if any
    result      \* what the entry point returned

vars ==
    <<pc, chars, index, tokens, scan, tok_result, cursor, stack, ret, called, lexemes,
      result>>

----------------------------------------------------------------------------
(* Characters *)

Ord ==
    (" " :> 32) @@ ("\"" :> 34) @@ ("+" :> 43) @@ ("," :> 44) @@ ("-" :> 45) @@
    ("." :> 46) @@ ("0" :> 48) @@ ("1" :> 49) @@ ("2" :> 50) @@ ("4" :> 52) @@
    ("6" :> 54) @@ ("8" :> 56) @@ (":" :> 58) @@ ("A" :> 65) @@ ("D" :> 68) @@
    ("E" :> 69) @@ ("[" :> 91) @@ ("\\" :> 92) @@ ("]" :> 93) @@ ("a" :> 97) @@
    ("b" :> 98) @@ ("e" :> 101) @@ ("f" :> 102) @@ ("l" :> 108) @@ ("n" :> 110) @@
    ("q" :> 113) @@ ("r" :> 114) @@ ("s" :> 115) @@ ("t" :> 116) @@ ("u" :> 117) @@
    ("x" :> 120) @@ ("{" :> 123) @@ ("}" :> 125)

\* the characters of a literal, written one per element
Text(s) == [i \in 1..Len(s) |-> Ord[s[i]]]

At(v, i) == v[i + 1]

is_ascii_whitespace(c) == c \in {32, 9, 10, 12, 13}

is_ascii_digit(c) == c \in 48..57

----------------------------------------------------------------------------
(* Outcomes and tokens *)

None == [kind |-> "none"]
Panic == [kind |-> "panic"]
Err(e) == [kind |-> "err", err |-> e]
Ok(v) == [kind |-> "ok", value |-> v]

Punct(t) == [type |-> t]
NullTok == [type |-> "Null"]
FalseTok == [type |-> "False"]
TrueTok == [type |-> "True"]
NumberTok(n) == [type |-> "Number", n |-> n]
StringTok(s) == [type |-> "String", s |-> s]

\* a make_token outcome: the token or error, and *index as the call leaves it
Made(tok, i) == [kind |-> "ok", token |-> tok, index |-> i, text |-> <<>>]

----------------------------------------------------------------------------
(* f64::from_str on the accumulated numeric text.  The value is the decimal *)
(* the text denotes, m * 10^e with m free of trailing zeros.                *)

RECURSIVE normal(_, _)
normal(m, e) ==
    IF m = 0 THEN [m |-> 0, e |-> 0]
    ELSE IF m % 10 = 0 THEN normal(m \div 10, e + 1)
    ELSE [m |-> m, e |-> e]

\* the grammar of f64::from_str for the characters a number scan gathers:
\* [sign] (digits [. digits] | . digits) [(e|E) [sign] digits], read by a
\* machine whose states say what was read last
RECURSIVE f64_scan(_, _, _, _)
f64_scan(s, p, st, acc) ==
    IF p > Len(s)
    THEN IF st \in {"int", "frac", "exp"}
         THEN Ok(normal(IF acc.neg THEN 0 - acc.m ELSE acc.m,
                        (IF acc.eneg THEN 0 - acc.ev ELSE acc.ev) - acc.scale))
         ELSE Err("ParseNumberError")
    ELSE LET c == s[p]
             d == is_ascii_digit(c)
         IN
         CASE st = "start" /\ c \in {Ord["-"], Ord["+"]} ->
                f64_scan(s, p + 1, "sign", [acc EXCEPT !.neg = (c = Ord["-"])])
           [] st \in {"start", "sign", "int"} /\ d ->
                f64_scan(s, p + 1, "int", [acc EXCEPT !.m = @ * 10 + (c - 48)])
           [] st \in {"start", "sign"} /\ c = Ord["."] ->
                f64_scan(s, p + 1, "dot", acc)
           [] st = "int" /\ c = Ord["."] ->
                f64_scan(s, p + 1, "frac", acc)
           [] st \in {"dot", "frac"} /\ d ->
                f64_scan(s, p + 1, "frac",
                         [acc EXCEPT !.m = @ * 10 + (c - 48), !.scale = @ + 1])
           [] st \in {"int", "frac"} /\ c \in {Ord["e"], Ord["E"]} ->
                f64_scan(s, p + 1, "e", acc)
           [] st = "e" /\ c \in {Ord["-"], Ord["+"]} ->
                f64_scan(s, p + 1, "esign", [acc EXCEPT !.eneg = (c = Ord["-"])])
           [] st \in {"e", "esign", "exp"} /\ d ->
                f64_scan(s, p + 1, "exp", [acc EXCEPT !.ev = @ * 10 + (c - 48)])
           [] OTHER -> Err("ParseNumberError")

parse_f64(s) ==
    f64_scan(s, 1, "start",
             [neg |-> FALSE, m |-> 0, scale |-> 0, eneg |-> FALSE, ev |-> 0])

----------------------------------------------------------------------------
(* tokenize.rs *)

RECURSIVE skip_whitespace(_, _)
skip_whitespace(cs, i) ==
    IF is_ascii_whitespace(At(cs, i))
    THEN IF i + 1 >= Len(cs) THEN Err("UnexpectedEof")
         ELSE skip_whitespace(cs, i + 1)
    ELSE [kind |-> "ok", index |-> i]

\* the loop shared by tokenize_null, tokenize_false and tokenize_true:
\* k characters of `word` are matched, chars[*index] is read unchecked
RECURSIVE match_literal(_, _, _, _, _)
match_literal(cs, i, word, k, tok) ==
    IF k = Len(word) THEN Made(tok, i - 1)
    ELSE IF i >= Len(cs) THEN Panic
    ELSE IF At(cs, i) # word[k + 1] THEN Err("UnfinishedLiteralValue")
    ELSE match_literal(cs, i + 1, word, k + 1, tok)

tokenize_null(cs, i) == match_literal(cs, i, Text(<<"n", "u", "l", "l">>), 0, NullTok)

tokenize_false(cs, i) == match_literal(cs, i, Text(<<"f", "a", "l", "s", "e">>), 0, FalseTok)

tokenize_true(cs, i) == match_literal(cs, i, Text(<<"t", "r", "u", "e">>), 0, TrueTok)

\* the guards of tokenize_float's match arms, with Rust's precedence:
\* && binds tighter than ||
is_exp_char(c, has_exp) == c = Ord["e"] \/ (c = Ord["E"] /\ ~has_exp)

is_sign_char(c, has_exp, has_sign_after_exp) ==
    c = Ord["-"] \/ (c = Ord["+"] /\ has_exp /\ ~has_sign_after_exp)

RECURSIVE float_loop(_, _, _, _, _, _)
float_loop(cs, i, unparsed_num, has_decimal, has_exp, has_sign_after_exp) ==
    IF i >= Len(cs) THEN [text |-> unparsed_num, index |-> i]
    ELSE LET c == At(cs, i) IN
         IF is_ascii_digit(c)
         THEN float_loop(cs, i + 1, Append(unparsed_num, c),
                         has_decimal, has_exp, has_sign_after_exp)
         ELSE IF c = Ord["."] /\ ~has_decimal
         THEN float_loop(cs, i + 1, Append(unparsed_num, c),
                         TRUE, has_exp, has_sign_after_exp)
         ELSE IF is_exp_char(c, has_exp)
         THEN float_loop(cs, i + 1, Append(unparsed_num, c),
                         has_decimal, TRUE, has_sign_after_exp)
         ELSE IF is_sign_char(c, has_exp, has_sign_after_exp)
         THEN float_loop(cs, i + 1, Append(unparsed_num, c),
                         has_decimal, has_exp, TRUE)
         ELSE [text |-> unparsed_num, index |-> i]

tokenize_float(cs, i) ==
    LET lead == At(cs, i) = Ord["-"]
        l == float_loop(cs, IF lead THEN i + 1 ELSE i,
                        IF lead THEN <<Ord["-"]>> ELSE <<>>, FALSE, FALSE, FALSE)
        p == parse_f64(l.text)
    IN  IF p.kind = "ok"
        THEN [kind |-> "ok", token |-> NumberTok(p.value), index |-> l.index,
              text |-> l.text]
        ELSE [kind |-> "err", err |-> "ParseNumberError", index |-> l.index,
              text |-> l.text]

\* a quote closes the string whether or not it is escaped
closes_on_any_quote(ch, is_escape) == ch = Ord["\""]

closes_string(ch, is_escape) == ch = Ord["\""] /\ ~is_escape

RECURSIVE string_loop(_, _, _, _)
string_loop(cs, i, string, is_escape) ==
    LET j == i + 1 IN
    IF j >= Len(cs) THEN Err("UnclosedQuotes")
    ELSE LET ch == At(cs, j) IN
         IF closes_string(ch, is_escape) THEN Made(StringTok(string), j)
         ELSE string_loop(cs, j, Append(string, ch),
                          ch = Ord["\\"] /\ ~is_escape)

tokenize_string(cs, i) == string_loop(cs, i, <<>>, FALSE)

dispatch(cs, i) ==
    LET ch == At(cs, i) IN
    CASE ch = Ord["{"] -> Made(Punct("LeftBrace"), i)
      [] ch = Ord["}"] -> Made(Punct("RightBrace"), i)
      [] ch = Ord["["] -> Made(Punct("LeftBracket"), i)
      [] ch = Ord["]"] -> Made(Punct("RightBracket"), i)
      [] ch = Ord[","] -> Made(Punct("Comma"), i)
      [] ch = Ord[":"] -> Made(Punct("Colon"), i)
      [] ch = Ord["n"] -> tokenize_null(cs, i)
      [] ch = Ord["f"] -> tokenize_false(cs, i)
      [] ch = Ord["t"] -> tokenize_true(cs, i)
      [] is_ascii_digit(ch) \/ ch = Ord["-"] -> tokenize_float(cs, i)
      [] ch = Ord["\""] -> tokenize_string(cs, i)
      [] OTHER -> [kind |-> "err", err |-> "CharNotRecognized", ch |-> ch]

\* the outcome of make_token, with the index its dispatch started at
make_token(cs, i) ==
    LET w == skip_whitespace(cs, i) IN
    IF w.kind = "err" THEN [out |-> w, start |-> Len(cs)]
    ELSE [out |-> dispatch(cs, w.index), start |-> w.index]

----------------------------------------------------------------------------
(* value.rs *)

NullVal == [type |-> "Null"]
BooleanVal(b) == [type |-> "Boolean", b |-> b]
NumberVal(n) == [type |-> "Number", n |-> n]
StringVal(s) == [type |-> "String", s |-> s]
ArrayVal(a) == [type |-> "Array", a |-> a]
ObjectVal(o) == [type |-> "Object", o |-> o]

----------------------------------------------------------------------------
(* parse.rs: parse_string *)

escape_char(c) ==
    CASE c = Ord["\""] -> Ord["\""]
      [] c = Ord["\\"] -> Ord["\\"]
      [] c = Ord["b"] -> 8
      [] c = Ord["f"] -> 18
      [] c = Ord["n"] -> 10
      [] c = Ord["r"] -> 13
      [] c = Ord["t"] -> 9
      [] OTHER -> c

\* char::to_digit(16): -1 stands for Option::None
to_digit16(c) ==
    CASE c \in 48..57 -> c - 48
      [] c \in 97..102 -> c - 87
      [] c \in 65..70 -> c - 55
      [] OTHER -> 0 - 1

RECURSIVE pow16(_)
pow16(n) == IF n = 0 THEN 1 ELSE 16 * pow16(n - 1)

\* the `for i in 0..4` loop: s is read from position p (from 1), i digits are
\* summed so far
RECURSIVE hex4(_, _, _, _)
hex4(s, p, i, sum) ==
    IF i = 4 THEN Ok(sum)
    ELSE IF p > Len(s) THEN Err("UnfinishedEscape")
    ELSE IF to_digit16(s[p]) < 0 THEN Err("InvalidHexValue")
    ELSE hex4(s, p + 1, i + 1, sum + pow16(3 - i) * to_digit16(s[p]))

\* char::from_u32: every value but a surrogate, up to 0x10FFFF
from_u32(n) ==
    IF n \in 55296..57343 \/ n > 1114111 THEN Err("InvalidCodePointValue") ELSE Ok(n)

RECURSIVE unescape(_, _, _, _)
unescape(s, p, is_escaping, output) ==
    IF p > Len(s) THEN Ok(StringVal(output))
    ELSE LET next_char == s[p] IN
         IF is_escaping
         THEN IF next_char = Ord["u"]
              THEN LET h == hex4(s, p + 1, 0, 0)
                       u == IF h.kind = "ok" THEN from_u32(h.value) ELSE h
                   IN  IF u.kind = "ok"
                       THEN unescape(s, p + 5, FALSE, Append(output, u.value))
                       ELSE u
              ELSE unescape(s, p + 1, FALSE, Append(output, escape_char(next_char)))
         ELSE IF next_char = Ord["\\"]
         THEN unescape(s, p + 1, TRUE, output)
         ELSE unescape(s, p + 1, FALSE, Append(output, next_char))

parse_string(s) == unescape(s, 1, FALSE, <<>>)

----------------------------------------------------------------------------
(* parse.rs: parse_tokens, parse_array, parse_object as a machine with an   *)
(* explicit stack: one frame per parse_array / parse_object activation.     *)

ArrayFrame(start) == [fn |-> "parse_array", array |-> <<>>, start |-> start]
ObjectFrame(start) ==
    [fn |-> "parse_object", object |-> <<>>, key |-> <<>>, start |-> start]

Top == stack[Len(stack)]
Pop == SubSeq(stack, 1, Len(stack) - 1)
SetTop(f) == [stack EXCEPT ![Len(stack)] = f]

\* an insert that keeps the entry a key already has
insert_if_absent(object, key, value) ==
    [k \in DOMAIN object \cup {key} |-> IF k \in DOMAIN object THEN object[k] ELSE value]

\* HashMap::insert: the key's entry is created or overwritten
insert(object, key, value) ==
    [k \in DOMAIN object \cup {key} |-> IF k = key THEN value ELSE object[k]]

\* the value of a token parse_tokens answers itself
scalar(token) ==
    CASE token.type = "Null" -> Ok(NullVal)
      [] token.type = "False" -> Ok(BooleanVal(FALSE))
      [] token.type = "True" -> Ok(BooleanVal(TRUE))
      [] token.type = "Number" -> Ok(NumberVal(token.n))
      [] token.type = "String" -> parse_string(token.s)

is_scalar(token) == token.type \in {"Null", "False", "True", "Number", "String"}

\* the cursor left on the closing bracket or brace
left_on_close(i) == i

\* `*index += 1` past the closing bracket or brace
past_close(i) == i + 1

TokUnchanged == UNCHANGED <<chars, index, tokens, scan, tok_result, lexemes>>

\* a panic unwinds every activation
Abort ==
    /\ pc' = "done"
    /\ result' = Panic
    /\ stack' = <<>>
    /\ UNCHANGED <<cursor, ret, called>>
    /\ TokUnchanged

\* parse_array / parse_object return r with the cursor at c
Return(r, c) ==
    /\ pc' = "returned"
    /\ ret' = r
    /\ cursor' = c
    /\ called' = Top.start
    /\ stack' = Pop
    /\ UNCHANGED result
    /\ TokUnchanged

\* parse_tokens on a token it answers itself (lines 8-20)
ParseScalar ==
    /\ pc = "parse_tokens"
    /\ cursor < Len(tokens)
    /\ is_scalar(At(tokens, cursor))
    /\ pc' = "returned"
    /\ ret' = scalar(At(tokens, cursor))
    /\ cursor' = cursor + 1
    /\ called' = cursor
    /\ UNCHANGED <<stack, result>>
    /\ TokUnchanged

\* parse_tokens on LeftBracket (line 21)
ParseArray ==
    /\ pc = "parse_tokens"
    /\ cursor < Len(tokens)
    /\ At(tokens, cursor).type = "LeftBracket"
    /\ pc' = "array_loop"
    /\ stack' = Append(stack, ArrayFrame(cursor))
    /\ UNCHANGED <<cursor, ret, called, result>>
    /\ TokUnchanged

\* parse_tokens on LeftBrace (line 22)
ParseObject ==
    /\ pc = "parse_tokens"
    /\ cursor < Len(tokens)
    /\ At(tokens, cursor).type = "LeftBrace"
    /\ pc' = "object_loop"
    /\ stack' = Append(stack, ObjectFrame(cursor))
    /\ UNCHANGED <<cursor, ret, called, result>>
    /\ TokUnchanged

\* parse_tokens on any other token: todo!() (line 24)
ParseTodo ==
    /\ pc = "parse_tokens"
    /\ cursor < Len(tokens)
    /\ At(tokens, cursor).type \in {"RightBracket", "RightBrace", "Comma", "Colon"}
    /\ Abort

\* parse_tokens with the cursor past the tokens: tokens[*index] (line 8)
ParseOutOfBounds ==
    /\ pc = "parse_tokens"
    /\ cursor >= Len(tokens)
    /\ Abort

\* parse_array, the head of its loop (lines 75-80, 91-93)
ArrayLoop ==
    /\ pc = "array_loop"
    /\ LET i == cursor + 1 IN
       IF i >= Len(tokens) THEN Abort
       ELSE IF At(tokens, i).type = "RightBracket"
       THEN Return(Ok(ArrayVal(Top.array)), past_close(i))
       ELSE /\ pc' = "parse_tokens"
            /\ cursor' = i
            /\ UNCHANGED <<stack, ret, called, result>>
            /\ TokUnchanged

\* parse_array after its element's parse_tokens returned (lines 80-93)
ArrayElement ==
    /\ pc = "returned"
    /\ stack # <<>>
    /\ Top.fn = "parse_array"
    /\ IF ret.kind = "err" THEN Return(ret, cursor)
       ELSE LET array == Append(Top.array, ret.value) IN
            IF cursor >= Len(tokens) THEN Abort
            ELSE IF At(tokens, cursor).type = "Comma"
            THEN /\ pc' = "array_loop"
                 /\ stack' = SetTop([Top EXCEPT !.array = array])
                 /\ UNCHANGED <<cursor, ret, called, result>>
                 /\ TokUnchanged
            ELSE IF At(tokens, cursor).type = "RightBracket"
            THEN Return(Ok(ArrayVal(array)), past_close(cursor))
            ELSE Return(Err("ExpectedComma"), cursor)

\* parse_object, the head of its loop (lines 100-110, 118-127)
ObjectLoop ==
    /\ pc = "object_loop"
    /\ LET i == cursor + 1 IN
       IF i >= Len(tokens) THEN Abort
       ELSE IF At(tokens, i).type = "RightBrace"
       THEN Return(Ok(ObjectVal(Top.object)), past_close(i))
       ELSE IF At(tokens, i).type # "String"
       THEN Return(Err("ExpectedProperty"), i)
       ELSE IF i + 1 >= Len(tokens) THEN Abort
       ELSE IF At(tokens, i + 1).type # "Colon"
       THEN Return(Err("ExpectedColon"), i + 1)
       ELSE /\ pc' = "parse_tokens"
            /\ cursor' = i + 2
            /\ stack' = SetTop([Top EXCEPT !.key = At(tokens, i).s])
            /\ UNCHANGED <<ret, called, result>>
            /\ TokUnchanged

\* parse_object after its member's parse_tokens returned (lines 110-127)
ObjectMember ==
    /\ pc = "returned"
    /\ stack # <<>>
    /\ Top.fn = "parse_object"
    /\ IF ret.kind = "err" THEN Return(ret, cursor)
       ELSE LET object == insert(Top.object, Top.key, ret.value) IN
            IF cursor >= Len(tokens) THEN Abort
            ELSE IF At(tokens, cursor).type = "Comma"
            THEN /\ pc' = "object_loop"
                 /\ stack' = SetTop([Top EXCEPT !.object = object])
                 /\ UNCHANGED <<cursor, ret, called, result>>
                 /\ TokUnchanged
            ELSE IF At(tokens, cursor).type = "RightBrace"
            THEN Return(Ok(ObjectVal(object)), past_close(cursor))
            ELSE Return(Err("ExpectedComma"), cursor)

\* a caller that accepts the value only when it used every token
ParseReturn_checks_end ==
    /\ pc = "returned"
    /\ stack = <<>>
    /\ pc' = "done"
    /\ result' = IF ret.kind = "ok" /\ cursor # Len(tokens)
                 THEN Err("TrailingTokens")
                 ELSE ret
    /\ UNCHANGED <<cursor, stack, ret, called>>
    /\ TokUnchanged

\* the outermost parse_tokens returns to its caller: a test, or lib.rs parse,
\* which wraps an error as ParseError::ParseError
ParseReturn ==
    /\ pc = "returned"
    /\ stack = <<>>
    /\ pc' = "done"
    /\ result' = IF ret.kind = "err" /\ tok_result.kind = "ok"
                 THEN [kind |-> "err", stage |-> "ParseError", err |-> ret.err]
                 ELSE ret
    /\ UNCHANGED <<cursor, stack, ret, called>>
    /\ TokUnchanged

----------------------------------------------------------------------------
(* tokenize.rs: tokenize, one action per pass of its loop *)

ParUnchanged == UNCHANGED <<cursor, stack, ret, called, lexemes>>

\* a pass that pushes a token (lines 35-38)
TokenizeLoop ==
    /\ pc = "tokenize"
    /\ index < Len(chars)
    /\ LET m == make_token(chars, index) IN
       /\ m.out.kind = "ok"
       /\ tokens' = Append(tokens, m.out.token)
       /\ index' = m.out.index + 1
       /\ scan' = m
    /\ UNCHANGED <<pc, chars, tok_result, result>>
    /\ ParUnchanged

\* a pass whose make_token fails: `?` returns the error (line 36), and
\* lib.rs parse wraps it as ParseError::TokenizeError (line 12)
TokenizeError ==
    /\ pc = "tokenize"
    /\ index < Len(chars)
    /\ LET m == make_token(chars, index)
           e == IF m.out.err = "CharNotRecognized"
                THEN [kind |-> "err", err |-> m.out.err, ch |-> m.out.ch]
                ELSE Err(m.out.err)
       IN
       /\ m.out.kind = "err"
       /\ tok_result' = e
       /\ result' = [kind |-> "err", stage |-> "TokenizeError", err |-> e.err]
       /\ scan' = m
    /\ pc' = "done"
    /\ UNCHANGED <<chars, index, tokens>>
    /\ ParUnchanged

\* a pass whose make_token reads chars[*index] past the end
TokenizePanic ==
    /\ pc = "tokenize"
    /\ index < Len(chars)
    /\ LET m == make_token(chars, index) IN
       /\ m.out.kind = "panic"
       /\ scan' = m
    /\ tok_result' = Panic
    /\ result' = Panic
    /\ pc' = "done"
    /\ UNCHANGED <<chars, index, tokens>>
    /\ ParUnchanged

\* the loop ends, tokenize returns Ok(tokens) (line 41) and lib.rs parse
\* calls parse_tokens(&tokens, &mut 0) (line 13)
TokenizeReturn ==
    /\ pc = "tokenize"
    /\ index >= Len(chars)
    /\ tok_result' = Ok(tokens)
    /\ pc' = "parse_tokens"
    /\ cursor' = 0
    /\ UNCHANGED <<chars, index, tokens, scan, stack, ret, called, lexemes, result>>

----------------------------------------------------------------------------
(* Inputs *)

MaxStringLen == 6
MaxNumberLen == 5
MaxTail == 2
MaxLexemes == 3
MaxTokens == 6
MaxPairs == 3
MaxRawLen == 3

Seqs(S, n) == UNION {[1..k -> S] : k \in 0..n}

RECURSIVE Flatten(_)
Flatten(ss) == IF ss = <<>> THEN <<>> ELSE Head(ss) \o Flatten(Tail(ss))

Chr(S) == {Ord[c] : c \in S}

\* quotes, backslashes, a letter and a comma, in every order
StringInputs == Seqs(Chr({"\"", "\\", "n", ","}), MaxStringLen)

\* the characters of a number, and a comma, in every order
NumberInputs == Seqs(Chr({"-", "1", ".", "e", "E", "+", ","}), MaxNumberLen)

Keywords ==
    {Text(<<"n", "u", "l", "l">>), Text(<<"f", "a", "l", "s", "e">>),
     Text(<<"t", "r", "u", "e">>)}

\* a keyword cut anywhere, then a few more characters
KeywordInputs ==
    UNION {{SubSeq(w, 1, k) \o tail :
               k \in 1..Len(w), tail \in Seqs(Chr({",", "l", "e", " "}), MaxTail)} :
           w \in Keywords}

Lexeme(text, token) == [text |-> Text(text), token |-> token]

Space == Lexeme(<<" ">>, None)

Lexemes ==
    {Lexeme(<<"[">>, Punct("LeftBracket")), Lexeme(<<"]">>, Punct("RightBracket")),
     Lexeme(<<"{">>, Punct("LeftBrace")), Lexeme(<<"}">>, Punct("RightBrace")),
     Lexeme(<<",">>, Punct("Comma")), Lexeme(<<":">>, Punct("Colon")),
     Space,
     Lexeme(<<"n", "u", "l", "l">>, NullTok),
     Lexeme(<<"t", "r", "u", "e">>, TrueTok),
     Lexeme(<<"1", "6">>, NumberTok([m |-> 16, e |-> 0])),
     Lexeme(<<"\"", "a", "\"">>, StringTok(Text(<<"a">>)))}

\* [null, 16]
NullSixteen ==
    <<Lexeme(<<"[">>, Punct("LeftBracket")), Lexeme(<<"n", "u", "l", "l">>, NullTok),
      Lexeme(<<",">>, Punct("Comma")), Space,
      Lexeme(<<"1", "6">>, NumberTok([m |-> 16, e |-> 0])),
      Lexeme(<<"]">>, Punct("RightBracket"))>>

LexemeInputs == Seqs(Lexemes, MaxLexemes) \cup {NullSixteen}

TextOf(ls) == Flatten([i \in 1..Len(ls) |-> ls[i].text])

KeyA == StringTok(Text(<<"a">>))
KeyB == StringTok(Text(<<"b">>))

\* every order of the punctuation and a string
TokenInputs ==
    Seqs({Punct("LeftBracket"), Punct("RightBracket"), Punct("LeftBrace"),
          Punct("RightBrace"), Punct("Comma"), Punct("Colon"), KeyA}, MaxTokens)

Pairs ==
    [key : {KeyA, KeyB},
     val : {NullTok, FalseTok, TrueTok, NumberTok([m |-> 1, e |-> 0]), KeyB}]

RECURSIVE Members(_)
Members(ps) ==
    IF ps = <<>> THEN <<>>
    ELSE <<Head(ps).key, Punct("Colon"), Head(ps).val>>
         \o (IF Len(ps) > 1 THEN <<Punct("Comma")>> ELSE <<>>)
         \o Members(Tail(ps))

ObjectTokens(ps, trailing) ==
    <<Punct("LeftBrace")>> \o Members(ps)
    \o (IF trailing THEN <<Punct("Comma")>> ELSE <<>>) \o <<Punct("RightBrace")>>

\* objects of scalar members, a key possibly repeated, with and without a
\* comma before the closing brace
ObjectInputs ==
    {ObjectTokens(ps, tr) : ps \in Seqs(Pairs, MaxPairs), tr \in BOOLEAN}

\* [null, [null]] of tests::parses_nested_array
NestedArray ==
    <<Punct("LeftBracket"), NullTok, Punct("Comma"), Punct("LeftBracket"), NullTok,
      Punct("RightBracket"), Punct("RightBracket")>>

\* raw string tokens: escapes of every letter, and \u escapes
RawStrings ==
    Seqs(Chr({"\\", "\"", "b", "f", "n", "r", "t", "q", "u", "a"}), MaxRawLen)
    \cup {Text(<<"\\", "u">>) \o h : h \in Seqs(Chr({"0", "4", "D", "8", "x"}), 4)}

StringInputTokens == {<<StringTok(r)>> : r \in RawStrings}

ParseInputs == TokenInputs \cup ObjectInputs \cup {NestedArray} \cup StringInputTokens

----------------------------------------------------------------------------
(* The calls: parse(input) of lib.rs on a text, and parse_tokens(tokens,    *)
(* &mut 0) on a token sequence, as the tests of parse.rs call it.           *)

NoScan == [out |-> None, start |-> 0]

InitParse ==
    /\ pc = "tokenize"
    /\ \/ /\ chars \in StringInputs \cup NumberInputs \cup KeywordInputs
          /\ lexemes = <<>>
       \/ /\ lexemes \in LexemeInputs
          /\ chars = TextOf(lexemes)
    /\ index = 0
    /\ tokens = <<>>

InitParseTokens ==
    /\ pc = "parse_tokens"
    /\ chars = <<>>
    /\ lexemes = <<>>
    /\ index = 0
    /\ tokens \in ParseInputs

Init ==
    /\ InitParse \/ InitParseTokens
    /\ scan = NoScan
    /\ tok_result = None
    /\ cursor = 0
    /\ stack = <<>>
    /\ ret = None
    /\ called = 0
    /\ result = None

Next ==
    \/ TokenizeLoop
    \/ TokenizeError
    \/ TokenizePanic
    \/ TokenizeReturn
    \/ ParseScalar
    \/ ParseArray
    \/ ParseObject
    \/ ParseTodo
    \/ ParseOutOfBounds
    \/ ArrayLoop
    \/ ArrayElement
    \/ ObjectLoop
    \/ ObjectMember
    \/ ParseReturn

Spec == Init /\ [][Next]_vars

----------------------------------------------------------------------------
(* The scanner's contract *)

IsNumberLexeme(l) == l # Space /\ l.token.type = "Number"

IsSeparator(l) == Len(l.text) = 1

\* the input is written as lexemes, a number followed by punctuation or
\* whitespace if by anything, and does not end in whitespace (which tokenize
\* answers with UnexpectedEof)
LexemeText ==
    /\ lexemes # <<>>
    /\ lexemes[Len(lexemes)] # Space
    /\ \A i \in 1..(Len(lexemes) - 1) :
          IsNumberLexeme(lexemes[i]) => IsSeparator(lexemes[i + 1])

RECURSIVE ExpectedTokens(_)
ExpectedTokens(ls) ==
    IF ls = <<>> THEN <<>>
    ELSE (IF Head(ls) = Space THEN <<>> ELSE <<Head(ls).token>>)
         \o ExpectedTokens(Tail(ls))

\* C1: a text made of valid lexemes tokenizes to one token per lexeme, in
\* order, none skipped; [null, 16] parses to Array([Null, Number(16)]).
C1_OneTokenPerLexeme ==
    /\ (LexemeText /\ tok_result.kind # "none")
          => tok_result = Ok(ExpectedTokens(lexemes))
    /\ (lexemes = NullSixteen /\ pc = "done")
          => result = Ok(ArrayVal(<<NullVal, NumberVal([m |-> 16, e |-> 0])>>))

\* the keyword whose first letter is c
KeywordOf(c) == CHOOSE w \in Keywords : w[1] = c

\* the whole keyword stands in cs from index i on
KeywordAt(cs, i) ==
    LET w == KeywordOf(At(cs, i)) IN
    /\ i + Len(w) <= Len(cs)
    /\ \A k \in 1..Len(w) : At(cs, i + k - 1) = w[k]

\* the last make_token call dispatched on the character c
Dispatched(C) ==
    /\ scan.out.kind # "none"
    /\ scan.start < Len(chars)
    /\ At(chars, scan.start) \in C

\* C2: on n, f or t every failure to match the whole keyword, the end of the
\* input included, makes tokenize return UnfinishedLiteralValue, and no
\* character is read at or past the end of the input.
C2_UnfinishedLiteral ==
    /\ tok_result.kind # "panic"
    /\ (Dispatched(Chr({"n", "f", "t"})) /\ ~KeywordAt(chars, scan.start))
          => tok_result = Err("UnfinishedLiteralValue")

\* the first index after `start` holding a quote with an even run of
\* backslashes right before it, or -1
BackslashRun(cs, start, j) ==
    LET ks == {k \in 0..(j - start - 1) :
                  \A i \in (j - k)..(j - 1) : At(cs, i) = Ord["\\"]}
    IN  CHOOSE k \in ks : \A l \in ks : l <= k

ClosingQuote(cs, start) ==
    LET js == {j \in (start + 1)..(Len(cs) - 1) :
                  /\ At(cs, j) = Ord["\""]
                  /\ BackslashRun(cs, start, j) % 2 = 0}
    IN  IF js = {} THEN 0 - 1 ELSE CHOOSE j \in js : \A l \in js : j <= l

\* C8: a string ends at the first later quote that is not escaped, a
\* backslash that is not escaped escaping exactly the next character; the
\* token holds the characters between the quotes as they are; without such
\* a quote tokenize returns UnclosedQuotes.
C8_StringScan ==
    Dispatched({Ord["\""]}) =>
        LET q == ClosingQuote(chars, scan.start) IN
        IF q < 0
        THEN /\ scan.out = Err("UnclosedQuotes")
             /\ tok_result = Err("UnclosedQuotes")
        ELSE /\ scan.out.kind = "ok"
             /\ scan.out.token = StringTok(SubSeq(chars, scan.start + 2, q))
             /\ scan.out.index = q
             /\ index = q + 1

\* a string holding an escaped quote and an escaped backslash was scanned
C8_Witness ==
    /\ Dispatched({Ord["\""]})
    /\ scan.out.kind = "ok"
    /\ \E i \in 1..(Len(scan.out.token.s) - 1) :
          /\ scan.out.token.s[i] = Ord["\\"]
          /\ scan.out.token.s[i + 1] = Ord["\""]
    /\ \E i \in 1..(Len(scan.out.token.s) - 1) :
          /\ scan.out.token.s[i] = Ord["\\"]
          /\ scan.out.token.s[i + 1] = Ord["\\"]

Count(t, C) == Cardinality({p \in 1..Len(t) : t[p] \in C})

\* digits, at most one point, at most one exponent marker, and besides a
\* leading minus at most one sign, which follows an exponent marker
NumberShape(t) ==
    /\ Count(t, {Ord["."]}) <= 1
    /\ Count(t, {Ord["e"], Ord["E"]}) <= 1
    /\ Cardinality({p \in 2..Len(t) : t[p] \in {Ord["-"], Ord["+"]}}) <= 1
    /\ \A p \in 2..Len(t) :
          t[p] \in {Ord["-"], Ord["+"]}
             => \E q \in 1..(p - 1) : t[q] \in {Ord["e"], Ord["E"]}

\* C10: a number scan gathers only text of the number shape: a second
\* exponent marker, or a minus before any exponent marker that is not the
\* leading character, ends the number and is not gathered.
C10_NumberShape ==
    Dispatched(48..57 \cup {Ord["-"]}) => NumberShape(scan.out.text)

----------------------------------------------------------------------------
(* The parser's contract *)

\* parse_tokens is about to run on a token that starts no value
OnNonValue ==
    /\ pc = "parse_tokens"
    /\ cursor < Len(tokens)
    /\ At(tokens, cursor).type \in {"RightBracket", "RightBrace", "Comma", "Colon"}

\* C3: parse_tokens on a token that cannot start a value, at the top or
\* inside an array or object, returns the UnexpectedToken error to its
\* caller and does not abort.
C3_UnexpectedToken ==
    [][OnNonValue => (pc' = "returned" /\ ret' = Err("UnexpectedToken"))]_vars

\* inside an array or object, the next token the parser reads lies past
\* the end of the tokens
AtEndWhileOpen ==
    \/ pc = "array_loop" /\ cursor + 1 >= Len(tokens)
    \/ pc = "object_loop" /\ cursor + 1 >= Len(tokens)
    \/ /\ pc = "object_loop"
       /\ cursor + 2 >= Len(tokens)
       /\ At(tokens, cursor + 1).type = "String"
    \/ pc = "returned" /\ stack # <<>> /\ ret.kind = "ok" /\ cursor >= Len(tokens)
    \/ pc = "parse_tokens" /\ stack # <<>> /\ cursor >= Len(tokens)

\* C4: when the tokens end while an array or object is open, parse_tokens
\* returns a structural expectation error: no token is read at a cursor at
\* or past the length of the tokens.
C4_EndWhileOpen ==
    [][AtEndWhileOpen =>
          /\ pc' = "returned"
          /\ ret'.kind = "err"
          /\ ret'.err \in {"ExpectedComma", "ExpectedColon", "ExpectedProperty",
                           "UnexpectedToken"}]_vars

\* the standard JSON escape table, but for \u
JsonEscape(c) ==
    CASE c = Ord["b"] -> 8
      [] c = Ord["f"] -> 12
      [] c = Ord["n"] -> 10
      [] c = Ord["r"] -> 13
      [] c = Ord["t"] -> 9
      [] OTHER -> c

\* the text a raw string stands for: an unescaped backslash is dropped and
\* the character after it goes through the table
RECURSIVE Decoded(_, _)
Decoded(raw, p) ==
    IF p > Len(raw) THEN <<>>
    ELSE IF raw[p] # Ord["\\"] THEN <<raw[p]>> \o Decoded(raw, p + 1)
    ELSE IF p = Len(raw) THEN <<>>
    ELSE <<JsonEscape(raw[p + 1])>> \o Decoded(raw, p + 2)

RECURSIVE HasUnicodeEscape(_, _)
HasUnicodeEscape(raw, p) ==
    IF p >= Len(raw) THEN FALSE
    ELSE IF raw[p] # Ord["\\"] THEN HasUnicodeEscape(raw, p + 1)
    ELSE raw[p + 1] = Ord["u"] \/ HasUnicodeEscape(raw, p + 2)

\* parse_tokens has just returned from the String token at `called`
StringReturned ==
    /\ pc = "returned"
    /\ cursor = called + 1
    /\ At(tokens, called).type = "String"

\* C5: escapes of a raw string resolve by the standard JSON table (\b
\* U+0008, \f U+000C, \n U+000A, \r U+000D, \t U+0009, any other character
\* but u itself), the backslash is dropped, the rest is copied.
C5_EscapeTable ==
    (StringReturned /\ ~HasUnicodeEscape(At(tokens, called).s, 1))
       => ret = Ok(StringVal(Decoded(At(tokens, called).s, 1)))

\* one past the token that closes what opens at index i: the brackets and
\* braces from i on are counted until they balance; -1 if they never do
RECURSIVE MatchEnd(_, _, _)
MatchEnd(ts, i, depth) ==
    IF i >= Len(ts) THEN 0 - 1
    ELSE LET t == At(ts, i).type
             d == IF t \in {"LeftBracket", "LeftBrace"} THEN depth + 1
                  ELSE IF t \in {"RightBracket", "RightBrace"} THEN depth - 1
                  ELSE depth
         IN  IF d <= 0 THEN i + 1 ELSE MatchEnd(ts, i + 1, d)

\* C6: when a parse_tokens call returns a value, the cursor is one past the
\* last token of that value, for scalars, arrays and objects at every depth.
C6_CursorPastValue ==
    (pc = "returned" /\ ret.kind = "ok") => cursor = MatchEnd(tokens, called, 0)

\* a nested array with elements has returned to an enclosing array or
\* object, which has tokens left to read
C6_Witness ==
    /\ pc = "returned"
    /\ ret.kind = "ok"
    /\ ret.value.type = "Array"
    /\ ret.value.a # <<>>
    /\ stack # <<>>
    /\ cursor < Len(tokens)

\* an object of scalar members: { key : scalar , key : scalar ... }
FlatObject(ts) ==
    /\ Len(ts) >= 2
    /\ ts[1].type = "LeftBrace"
    /\ ts[Len(ts)].type = "RightBrace"
    /\ Len(ts) = 2 \/ (Len(ts) - 1) % 4 = 0
    /\ \A k \in 0..((Len(ts) - 1) \div 4 - 1) :
          /\ ts[4 * k + 2].type = "String"
          /\ ts[4 * k + 3].type = "Colon"
          /\ is_scalar(ts[4 * k + 4])
          /\ ts[4 * k + 5].type = IF 4 * k + 5 = Len(ts) THEN "RightBrace" ELSE "Comma"

MemberCount(ts) == (Len(ts) - 1) \div 4
KeyOf(ts, k) == ts[4 * k - 2].s
ValueOf(ts, k) == scalar(ts[4 * k]).value

\* the member that mentions the key last
LastOf(ts, key) ==
    CHOOSE k \in 1..MemberCount(ts) :
        /\ KeyOf(ts, k) = key
        /\ \A l \in (k + 1)..MemberCount(ts) : KeyOf(ts, l) # key

\* C7: a well-formed object parses to the mapping of each distinct key to
\* the value of the key's last occurrence: a repeated key overwrites, is no
\* error, and leaves one entry per distinct key.
C7_LastKeyWins ==
    (pc = "done" /\ tok_result.kind = "none" /\ FlatObject(tokens))
       => LET keys == {KeyOf(tokens, k) : k \in 1..MemberCount(tokens)} IN
          /\ result.kind = "ok"
          /\ result.value.type = "Object"
          /\ DOMAIN result.value.o = keys
          /\ \A key \in keys :
                result.value.o[key] = ValueOf(tokens, LastOf(tokens, key))

\* an object with a key given twice, to different values, another key in
\* between, has been parsed
C7_Witness ==
    /\ pc = "done"
    /\ tok_result.kind = "none"
    /\ FlatObject(tokens)
    /\ MemberCount(tokens) = 3
    /\ KeyOf(tokens, 1) = KeyOf(tokens, 3)
    /\ KeyOf(tokens, 1) # KeyOf(tokens, 2)
    /\ ValueOf(tokens, 1) # ValueOf(tokens, 3)
    /\ result.kind = "ok"

\* C9: the closing bracket or brace is looked for only right after the
\* opening one; after a Comma another element must follow, so a closing
\* token right after a Comma is not accepted as a successful parse.
C9_NoTrailingComma ==
    (pc = "returned" /\ ret.kind = "ok" /\ ret.value.type \in {"Array", "Object"})
       => At(tokens, cursor - 2).type # "Comma"

\* an array of scalar elements: [ scalar , scalar ... ]
FlatArray(ts) ==
    /\ Len(ts) >= 2
    /\ ts[1].type = "LeftBracket"
    /\ ts[Len(ts)].type = "RightBracket"
    /\ Len(ts) = 2 \/ Len(ts) % 2 = 1
    /\ \A k \in 1..((Len(ts) - 1) \div 2) :
          /\ is_scalar(ts[2 * k])
          /\ ts[2 * k + 1].type = IF 2 * k + 1 = Len(ts) THEN "RightBracket" ELSE "Comma"

\* one complete value: a scalar, an array of scalars or an object of
\* scalars, every String token in it decodable
CompleteValue(ts) ==
    /\ \/ Len(ts) = 1 /\ is_scalar(ts[1])
       \/ FlatArray(ts)
       \/ FlatObject(ts)
    /\ \A k \in 1..Len(ts) : is_scalar(ts[k]) => scalar(ts[k]).kind = "ok"

\* the value those tokens denote
ValueOfTokens(ts) ==
    IF Len(ts) = 1 THEN scalar(ts[1]).value
    ELSE IF ts[1].type = "LeftBracket"
    THEN ArrayVal([k \in 1..((Len(ts) - 1) \div 2) |-> scalar(ts[2 * k]).value])
    ELSE LET keys == {KeyOf(ts, k) : k \in 1..MemberCount(ts)} IN
         ObjectVal([key \in keys |-> ValueOf(ts, LastOf(ts, key))])

\* C11: the top-level parse reads one value from cursor 0 and looks at
\* nothing after it: whenever a prefix of the tokens is one complete value,
\* the parse ends successfully with that value and with the cursor at the
\* end of the prefix, whatever tokens follow; a successful result is the
\* value parse_tokens returned, with no comparison of the cursor and the
\* number of tokens.
C11_TrailingTokensIgnored ==
    (pc = "done" /\ tok_result.kind \in {"none", "ok"})
       => /\ \A n \in 1..Len(tokens) :
                CompleteValue(SubSeq(tokens, 1, n))
                   => /\ result = Ok(ValueOfTokens(SubSeq(tokens, 1, n)))
                      /\ cursor = n
          /\ result.kind = "ok"
                => result = ret /\ cursor = MatchEnd(tokens, 0, 0)

\* parse has tokenized a text and returned the array its first tokens
\* make, with a token left unread after the closing bracket
C11_Witness ==
    /\ pc = "done"
    /\ tok_result.kind = "ok"
    /\ result.kind = "ok"
    /\ result.value.type = "Array"
    /\ cursor < Len(tokens)
    /\ CompleteValue(SubSeq(tokens, 1, cursor))

====
